---- MODULE Spec2Model ----
(***************************************************************************)
(* Watershed delineation of criticidade_de_outorga.py:                     *)
(* find_basin_adaptado (two passes over the catchment records, progress    *)
(* reporting, area sum, return value) and one iteration of the batch loop  *)
(* that calls it.                                                          *)
(*                                                                         *)
(* Python strings are sequences of one-character strings, floats with one  *)
(* decimal digit are integers counting tenths, a polygon is its ring of    *)
(* integer coordinates (axis-aligned rectangles), a geometry union is the  *)
(* set of unit cells it covers.                                            *)
(***************************************************************************)
EXTENDS Integers, Sequences, FiniteSets, TLC

VARIABLES records, point, area_field, return_reach,
          pc, i, sr, current_progress, callbacks, tested,
          selected_area, selected_reach, selected_basin,
          selected_basin_int, selected_basin_length,
          basin_polygons, area, matched, ret, raised, branch

vars == <<records, point, area_field, return_reach,
          pc, i, sr, current_progress, callbacks, tested,
          selected_area, selected_reach, selected_basin,
          selected_basin_int, selected_basin_length,
          basin_polygons, area, matched, ret, raised, branch>>

(* ---------------------------- bounds ----------------------------------- *)
MaxRecords == 3
MaxFeatures == 100

(* ------------------------ values of the model -------------------------- *)
Min(a, b) == IF a < b THEN a ELSE b

Rect(x1, y1, x2, y2) ==
    << <<x1, y1>>, <<x2, y1>>, <<x2, y2>>, <<x1, y2>>, <<x1, y1>> >>

AreaStr(s) == [kind |-> "str", s |-> s, v |-> 0]
AreaNum(v) == [kind |-> "num", s |-> <<>>, v |-> v]
NoValue == [kind |-> "none", s |-> <<>>, v |-> 0]

PyNone == [tag |-> "None"]
PyGeom(c) == [tag |-> "geom", cells |-> c]
PyFloat(v) == [tag |-> "float", v |-> v]
PyStr(s) == [tag |-> "str", s |-> s]

(* ------------------------ gen_polygons_from_shape ---------------------- *)
gen_polygons_from_shape(shape) ==
    LET offset_parts == SubSeq(shape.parts, 2, Len(shape.parts)) \o <<Len(shape.points)>>
    IN  [k \in 1..Len(shape.parts) |->
            SubSeq(shape.points, shape.parts[k] + 1, offset_parts[k])]

(* ------------------------ is_within_bounds ----------------------------- *)
is_within_bounds_swapped(p, bounding_box) ==
    LET x1 == bounding_box[1]
        y1 == bounding_box[2]
        x2 == bounding_box[3]
        y2 == bounding_box[4]
    IN  (x1 <= p[2] /\ p[2] <= x2) /\ (y1 <= p[1] /\ p[1] <= y2)

is_within_bounds(p, bounding_box) ==
    LET x1 == bounding_box[1]
        y1 == bounding_box[2]
        x2 == bounding_box[3]
        y2 == bounding_box[4]
    IN  (x1 <= p[1] /\ p[1] <= x2) /\ (y1 <= p[2] /\ p[2] <= y2)

(* point.within(poly) for a rectangular ring: the boundary is outside.     *)
Within(p, poly) ==
    /\ Len(poly) > 0
    /\ \E a \in 1..Len(poly) : poly[a][1] < p[1]
    /\ \E a \in 1..Len(poly) : poly[a][1] > p[1]
    /\ \E a \in 1..Len(poly) : poly[a][2] < p[2]
    /\ \E a \in 1..Len(poly) : poly[a][2] > p[2]

(* ------------------------ is_within_shape ------------------------------ *)
is_within_shape_bbox_only(p, shape) ==
    is_within_bounds(p, shape.bbox)

is_within_shape(p, shape) ==
    IF ~ is_within_bounds(p, shape.bbox)
    THEN FALSE
    ELSE LET polys == gen_polygons_from_shape(shape)
         IN  \E k \in 1..Len(polys) : Within(p, polys[k])

(* ------------------------ string helpers ------------------------------- *)
DigitVal(c) ==
    CASE c = "0" -> 0 [] c = "1" -> 1 [] c = "2" -> 2 [] c = "3" -> 3
      [] c = "4" -> 4 [] c = "5" -> 5 [] c = "6" -> 6 [] c = "7" -> 7
      [] c = "8" -> 8 [] c = "9" -> 9

RECURSIVE ParseInt(_)
ParseInt(s) ==
    IF s = <<>> THEN 0
    ELSE ParseInt(SubSeq(s, 1, Len(s) - 1)) * 10 + DigitVal(s[Len(s)])

StartsWith(s, prefix) ==
    /\ Len(prefix) <= Len(s)
    /\ SubSeq(s, 1, Len(prefix)) = prefix

SliceTo(s, n) == SubSeq(s, 1, Min(n, Len(s)))

LJust(s, n, c) ==
    IF Len(s) >= n THEN s ELSE s \o [k \in 1..(n - Len(s)) |-> c]

Replace(s, old, new) == [k \in 1..Len(s) |-> IF s[k] = old THEN new ELSE s[k]]

IndexOf(s, c) ==
    IF \E k \in 1..Len(s) : s[k] = c
    THEN CHOOSE k \in 1..Len(s) : s[k] = c /\ \A j \in 1..(k - 1) : s[j] # c
    ELSE 0

(* float(text) of a decimal with at most one fractional digit, in tenths   *)
ParseFloat(s) ==
    LET dot == IndexOf(s, ".")
    IN  IF dot = 0 THEN ParseInt(s) * 10
        ELSE ParseInt(SubSeq(s, 1, dot - 1)) * 10
             + (IF dot < Len(s) THEN DigitVal(s[dot + 1]) ELSE 0)

(* ------------------------ the hierarchical matcher --------------------- *)
(* lines 146-147: sr.record[basin_index][:L].ljust(L, '0'), then int()     *)
NormalizeBasin_untruncated(basin, length) ==
    ParseInt(LJust(basin, length, "0"))

NormalizeBasin(basin, length) ==
    ParseInt(LJust(SliceTo(basin, length), length, "0"))

(* lines 144-150: the two nested conditions of the aggregation pass        *)
Matches_strict(rec, sel_reach, sel_basin_int, sel_basin_length) ==
    /\ StartsWith(rec.reach, sel_reach)
    /\ NormalizeBasin(rec.basin, sel_basin_length) > sel_basin_int

Matches(rec, sel_reach, sel_basin_int, sel_basin_length) ==
    /\ StartsWith(rec.reach, sel_reach)
    /\ NormalizeBasin(rec.basin, sel_basin_length) >= sel_basin_int

(* lines 154-157: float(text.replace(',', '.')), or the number itself      *)
AreaOf(a) ==
    IF a.kind = "str" THEN ParseFloat(Replace(a.s, ",", ".")) ELSE a.v

(* ------------------------ geometry of the result ----------------------- *)
Coords(poly, axis) == {poly[a][axis] : a \in 1..Len(poly)}

SetMin(S) == CHOOSE m \in S : \A o \in S : m <= o

SetMax(S) == CHOOSE m \in S : \A o \in S : m >= o

(* unit cells covered by a rectangular ring                                *)
Cells(poly) ==
    IF Len(poly) = 0 THEN {}
    ELSE {c \in (SetMin(Coords(poly, 1))..(SetMax(Coords(poly, 1)) - 1))
                \X (SetMin(Coords(poly, 2))..(SetMax(Coords(poly, 2)) - 1)) : TRUE}

(* poly.buffer(0): a valid ring is returned unchanged                      *)
Buffer0(poly) == poly

cascaded_union(polys) == UNION {Cells(polys[k]) : k \in 1..Len(polys)}

(* ------------------------ progress reporting --------------------------- *)
SearchProgress(idx, feature_count) == ((idx + 1) * 50) \div feature_count

AggregateProgress(idx, feature_count) == 50 + ((idx + 1) * 50) \div feature_count

(* lines 114-116 and 160-162: one step of the reported percentage          *)
Report_raw(cp, cb, progress, phase) ==
    IF cp < progress
    THEN [cp |-> cp + 1, cb |-> Append(cb, [v |-> progress, phase |-> phase])]
    ELSE [cp |-> cp, cb |-> cb]

Report(cp, cb, progress, phase) ==
    IF cp < progress
    THEN [cp |-> cp + 1, cb |-> Append(cb, [v |-> cp + 1, phase |-> phase])]
    ELSE [cp |-> cp, cb |-> cb]

(* ------------------------ the record source ---------------------------- *)
Shape(parts_rings) ==
    LET RECURSIVE Flat(_)
        Flat(k) == IF k = 0 THEN <<>> ELSE Flat(k - 1) \o parts_rings[k]
        RECURSIVE Offs(_)
        Offs(k) == IF k = 0 THEN <<>> ELSE Append(Offs(k - 1), Len(Flat(k - 1)))
        pts == Flat(Len(parts_rings))
    IN  [points |-> pts,
         parts |-> Offs(Len(parts_rings)),
         bbox |-> <<SetMin({pts[a][1] : a \in 1..Len(pts)}),
                    SetMin({pts[a][2] : a \in 1..Len(pts)}),
                    SetMax({pts[a][1] : a \in 1..Len(pts)}),
                    SetMax({pts[a][2] : a \in 1..Len(pts)})>>]

EmptyShape == [points |-> <<>>, parts |-> <<>>, bbox |-> <<0, 0, 10, 10>>]

R1 == [shape |-> Shape(<<Rect(0, 0, 2, 2)>>),
       reach |-> <<"1", "0">>, basin |-> <<"1", "0", "0">>,
       area |-> AreaStr(<<"1", "0", ",", "0">>)]

R2 == [shape |-> Shape(<<Rect(2, 0, 4, 2), Rect(4, 0, 6, 2)>>),
       reach |-> <<"1", "0">>, basin |-> <<"2", "0", "0">>,
       area |-> AreaNum(50)]

R3 == [shape |-> Shape(<<Rect(8, 8, 10, 10)>>),
       reach |-> <<"9", "9">>, basin |-> <<"9", "0", "0">>,
       area |-> AreaStr(<<"2", ",", "5">>)]

R4 == [shape |-> Shape(<<Rect(0, 0, 2, 2), Rect(4, 0, 6, 2)>>),
       reach |-> <<"1", "0", "1">>, basin |-> <<"2">>,
       area |-> AreaNum(10)]

R5 == [shape |-> Shape(<<Rect(6, 0, 8, 2)>>),
       reach |-> <<"1", "0">>, basin |-> <<"1", "0", "0", "5">>,
       area |-> AreaStr(<<"7">>)]

R6 == [shape |-> EmptyShape,
       reach |-> <<"1", "0">>, basin |-> <<"1", "5">>,
       area |-> AreaNum(30)]

Catalogue == {R1, R2, R3, R4, R5, R6}

QueryPoints == {<<1, 1>>, <<3, 1>>, <<9, 9>>}

RECURSIVE SeqsUpTo(_, _)
SeqsUpTo(S, n) ==
    IF n = 0 THEN {<<>>}
    ELSE LET shorter == SeqsUpTo(S, n - 1)
         IN  shorter \cup {Append(s, e) : s \in {q \in shorter : Len(q) = n - 1}, e \in S}

feature_count == Len(records)

(* ------------------------ initial states ------------------------------- *)
Fresh ==
    /\ pc = "search"
    /\ i = 0
    /\ sr = 0
    /\ current_progress = 0
    /\ callbacks = <<>>
    /\ tested = <<>>
    /\ selected_area = NoValue
    /\ selected_reach = <<>>
    /\ selected_basin = <<>>
    /\ selected_basin_int = 0
    /\ selected_basin_length = 0
    /\ basin_polygons = <<>>
    /\ area = 0
    /\ matched = <<>>
    /\ ret = <<>>
    /\ raised = "none"
    /\ branch = "none"

(* any layer of up to MaxRecords catchments, any outlet, any options       *)
Init ==
    /\ records \in SeqsUpTo(Catalogue, MaxRecords)
    /\ point \in QueryPoints
    /\ area_field \in BOOLEAN
    /\ return_reach \in BOOLEAN
    /\ Fresh

(* a layer of up to MaxFeatures catchments of which at most one, at any    *)
(* position, contains the outlet; called as the batch loop calls it        *)
InitProgress ==
    /\ \E n \in 1..MaxFeatures : \E s \in 1..(n + 1) :
          records = [k \in 1..n |-> IF k = s THEN R1 ELSE R3]
    /\ point = <<1, 1>>
    /\ area_field = TRUE
    /\ return_reach = TRUE
    /\ Fresh

(* ------------------------ find_basin_adaptado -------------------------- *)
(* lines 109-116: one iteration of the seed search                         *)
SearchStep ==
    /\ pc = "search"
    /\ i < feature_count
    /\ sr' = i + 1
    /\ tested' = Append(tested, i + 1)
    /\ IF is_within_shape(point, records[i + 1].shape)
       THEN /\ pc' = "found"
            /\ UNCHANGED <<i, current_progress, callbacks>>
       ELSE LET r == Report(current_progress, callbacks,
                            SearchProgress(i, feature_count), "search")
            IN  /\ current_progress' = r.cp
                /\ callbacks' = r.cb
                /\ i' = i + 1
                /\ pc' = "search"
    /\ UNCHANGED <<records, point, area_field, return_reach,
                   selected_area, selected_reach, selected_basin,
                   selected_basin_int, selected_basin_length,
                   basin_polygons, area, matched, ret, raised, branch>>

(* lines 118-124: the loop ended without a break                           *)
NotFound ==
    /\ pc = "search"
    /\ i = feature_count
    /\ callbacks' = Append(callbacks, [v |-> 100, phase |-> "not_found"])
    /\ ret' = IF area_field THEN <<PyNone, PyNone>> ELSE <<PyNone>>
    /\ pc' = "returned"
    /\ UNCHANGED <<records, point, area_field, return_reach,
                   i, sr, current_progress, tested,
                   selected_area, selected_reach, selected_basin,
                   selected_basin_int, selected_basin_length,
                   basin_polygons, area, matched, raised, branch>>

(* lines 126-139: keep the seed's codes, start the second pass             *)
SaveSeed ==
    /\ pc = "found"
    /\ selected_area' = IF area_field THEN records[sr].area ELSE selected_area
    /\ selected_reach' = records[sr].reach
    /\ selected_basin' = records[sr].basin
    /\ selected_basin_int' = ParseInt(records[sr].basin)
    /\ selected_basin_length' = Len(records[sr].basin)
    /\ basin_polygons' = <<>>
    /\ area' = 0
    /\ i' = 0
    /\ pc' = "aggregate"
    /\ UNCHANGED <<records, point, area_field, return_reach,
                   sr, current_progress, callbacks, tested,
                   matched, ret, raised, branch>>

(* lines 151-157: the polygons and the area one matched record adds        *)
AddedPolygons(rec) ==
    LET polys == gen_polygons_from_shape(rec.shape)
    IN  [k \in 1..Len(polys) |-> Buffer0(polys[k])]

AddedArea(rec) ==
    IF area_field
    THEN Len(gen_polygons_from_shape(rec.shape)) * AreaOf(rec.area)
    ELSE 0

(* lines 141-162: one iteration of the aggregation pass                    *)
AggregateStep ==
    /\ pc = "aggregate"
    /\ i < feature_count
    /\ sr' = i + 1
    /\ IF Matches(records[i + 1], selected_reach, selected_basin_int,
                  selected_basin_length)
       THEN /\ basin_polygons' = basin_polygons \o AddedPolygons(records[i + 1])
            /\ area' = area + AddedArea(records[i + 1])
            /\ matched' = Append(matched, i + 1)
       ELSE UNCHANGED <<basin_polygons, area, matched>>
    /\ LET r == Report(current_progress, callbacks,
                       AggregateProgress(i, feature_count), "aggregate")
       IN  /\ current_progress' = r.cp
           /\ callbacks' = r.cb
    /\ i' = i + 1
    /\ UNCHANGED <<records, point, area_field, return_reach, pc, tested,
                   selected_area, selected_reach, selected_basin,
                   selected_basin_int, selected_basin_length,
                   ret, raised, branch>>

(* lines 164-170: the value returned after the second pass                 *)
Return ==
    /\ pc = "aggregate"
    /\ i = feature_count
    /\ ret' = IF area_field /\ return_reach
              THEN <<PyGeom(cascaded_union(basin_polygons)), PyFloat(area),
                     PyStr(selected_reach)>>
              ELSE IF area_field
              THEN <<PyGeom(cascaded_union(basin_polygons)), PyFloat(area)>>
              ELSE <<PyGeom(cascaded_union(basin_polygons))>>
    /\ pc' = "returned"
    /\ UNCHANGED <<records, point, area_field, return_reach,
                   i, sr, current_progress, callbacks, tested,
                   selected_area, selected_reach, selected_basin,
                   selected_basin_int, selected_basin_length,
                   basin_polygons, area, matched, raised, branch>>

(* ------------------------ the batch loop ------------------------------- *)
(* lines 228-247: poly, area, reach = find_basin_adaptado(...,             *)
(* area_field='nuareacont', return_reach=True), then the two branches      *)
Driver ==
    /\ pc = "returned"
    /\ area_field
    /\ return_reach
    /\ IF Len(ret) # 3
       THEN /\ raised' = "ValueError"
            /\ branch' = "none"
       ELSE /\ raised' = raised
            /\ branch' = IF ret[1].tag # "None" THEN "basin" ELSE "outside"
    /\ pc' = "driver_done"
    /\ UNCHANGED <<records, point, area_field, return_reach,
                   i, sr, current_progress, callbacks, tested,
                   selected_area, selected_reach, selected_basin,
                   selected_basin_int, selected_basin_length,
                   basin_polygons, area, matched, ret>>

Next ==
    \/ SearchStep
    \/ NotFound
    \/ SaveSeed
    \/ AggregateStep
    \/ Return
    \/ Driver

Spec == Init /\ [][Next]_vars

SpecProgress == InitProgress /\ [][Next]_vars

(* ======================= properties ==================================== *)
Done == pc \in {"returned", "driver_done"}

SeedFound == Done /\ ret[1].tag = "geom"

Last(s) == s[Len(s)]

Range(s) == {s[k] : k \in 1..Len(s)}

(* the outlet lies strictly inside one of the record's parts              *)
HoldsPoint(rec) ==
    LET polys == gen_polygons_from_shape(rec.shape)
    IN  \E k \in 1..Len(polys) : Within(point, polys[k])

NoneHolds == \A k \in 1..Len(records) : ~ HoldsPoint(records[k])

(* C1: after a call with a callback over N >= 1 records, found or not, the *)
(* last value the callback received is exactly 100.                        *)
C1_LastValueIs100 ==
    (Done /\ Len(records) >= 1) =>
        (callbacks # <<>> /\ Last(callbacks).v = 100)

(* C2: every value passed to the callback is in 0..100 and strictly        *)
(* greater than the value of the previous invocation, across both passes   *)
(* and the not-found callback.                                             *)
C2_StrictlyIncreasing ==
    \A k \in 1..Len(callbacks) :
        /\ callbacks[k].v \in 0..100
        /\ k > 1 => callbacks[k].v > callbacks[k - 1].v

C2_Witness ==
    /\ Done
    /\ Len(records) > 50
    /\ \E k \in 1..Len(callbacks) : callbacks[k].phase = "search"
    /\ \E k \in 1..Len(callbacks) : callbacks[k].phase = "aggregate"
    /\ Len(callbacks) < Len(tested) + Len(records) - 1
    /\ Last(callbacks).v = 100

(* C3: when no record contains the outlet (an empty layer included) every  *)
(* record is scanned once, the call returns instead of raising, 100 is     *)
(* reported exactly once, there is no aggregation pass, and the result is  *)
(* absent.                                                                 *)
C3_NotFoundOutcome ==
    (Done /\ NoneHolds) =>
        /\ tested = [k \in 1..Len(records) |-> k]
        /\ Cardinality({k \in 1..Len(callbacks) : callbacks[k].v = 100}) = 1
        /\ \A k \in 1..Len(callbacks) : callbacks[k].phase # "aggregate"
        /\ matched = <<>>
        /\ basin_polygons = <<>>
        /\ selected_basin_length = 0
        /\ Len(ret) >= 1
        /\ \A k \in 1..Len(ret) : ret[k].tag = "None"

C3_Witness ==
    /\ pc = "returned"
    /\ NoneHolds
    /\ Len(records) >= 2
    /\ \E k \in 1..Len(records) : is_within_bounds(point, records[k].shape.bbox)
    /\ ret[1].tag = "None"

RECURSIVE SumAreas(_)
SumAreas(idx) ==
    IF idx = <<>> THEN 0
    ELSE AreaOf(records[idx[1]].area) + SumAreas(Tail(idx))

(* C4: with an area field, the returned area is the sum of the matched     *)
(* records' area attributes, each record counted once whatever its number  *)
(* of parts.                                                               *)
C4_AreaOncePerRecord ==
    (SeedFound /\ area_field) => ret[2].v = SumAreas(matched)

(* the matcher as the specification words it                                    *)
ClaimNormalized(basin, length) ==
    IF Len(basin) > length THEN SubSeq(basin, 1, length)
    ELSE IF Len(basin) < length
    THEN basin \o [k \in 1..(length - Len(basin)) |-> "0"]
    ELSE basin

ClaimMatches(rec, seed) ==
    /\ Len(seed.reach) <= Len(rec.reach)
    /\ \A k \in 1..Len(seed.reach) : rec.reach[k] = seed.reach[k]
    /\ ParseInt(ClaimNormalized(rec.basin, Len(seed.basin))) >= ParseInt(seed.basin)

C6_FirstContainingIsSeed ==
    /\ tested = [k \in 1..Len(tested) |-> k]
    /\ \A k \in 1..(Len(tested) - 1) : ~ HoldsPoint(records[k])
    /\ pc = "search" => (Len(tested) = i /\ \A k \in 1..i : ~ HoldsPoint(records[k]))
    /\ (pc \in {"found", "aggregate"} \/ SeedFound) =>
          (tested # <<>> /\ HoldsPoint(records[Last(tested)]))
    /\ (pc = "aggregate" \/ SeedFound) =>
          /\ selected_reach = records[Last(tested)].reach
          /\ selected_basin = records[Last(tested)].basin
    /\ (Done /\ ~ SeedFound) => (Len(tested) = Len(records) /\ NoneHolds)

C6_Witness ==
    /\ pc = "aggregate"
    /\ Last(tested) > 1
    /\ \E k \in (Last(tested) + 1)..Len(records) : HoldsPoint(records[k])

C8_ReachReturned ==
    (SeedFound /\ return_reach) =>
        \E k \in 1..Len(ret) :
            ret[k].tag = "str" /\ ret[k].s = records[Last(tested)].reach

(* C9: callbacks of the seed search carry values in 0..50, callbacks of    *)
(* the aggregation pass carry values in 50..100.                           *)
C9_PhaseRanges ==
    \A k \in 1..Len(callbacks) :
        /\ callbacks[k].phase = "search" => callbacks[k].v \in 0..50
        /\ callbacks[k].phase = "aggregate" => callbacks[k].v \in 50..100

(* C10: the batch loop, unpacking three values, handles an outlet outside  *)
(* every catchment in its 'outside' branch without an error.               *)
C10_DriverHandlesOutside ==
    (pc = "driver_done" /\ NoneHolds) =>
        (raised = "none" /\ branch = "outside")

====
